---- MODULE Spec2Model ----
(***************************************************************************)
(* A model of the CRM server of src/app/server.py: the SQLite store behind *)
(* DB_PATH, the request handlers of CRMHandler that read and write it, and *)
(* the transaction behaviour of the connection each handler opens with     *)
(* get_conn().                                                             *)
(***************************************************************************)
EXTENDS Integers, Sequences, FiniteSets, TLC

(***************************************************************************)
(* Bounds of the model.                                                    *)
(***************************************************************************)
\* the last value of the clock read by now_iso()
MaxClock == 1
\* the highest id the AUTOINCREMENT counter of each table may hand out
MaxCustomerId == 3
MaxProductId == 5
MaxOrderId == 2
MaxCaseId == 2
\* the number of requests serve_forever() accepts
MaxRequests == 2

(***************************************************************************)
(* Values: a JSON scalar of a request body and a value of a nullable or    *)
(* TEXT column is tagged with its type, as SQLite and JSON values are.     *)
(***************************************************************************)
NULL == [t |-> "null"]
Str(s) == [t |-> "str", v |-> s]
Num(n) == [t |-> "int", v |-> n]

\* the decimal strings that occur in request bodies, with the int() of each
DecimalLiteral == ("2" :> 2)

\* int(v) raises for None and for a string that is not a decimal literal
int_ok(v) == \/ v.t = "int"
             \/ v.t = "str" /\ v.v \in DOMAIN DecimalLiteral
int(v) == IF v.t = "int" THEN v.v ELSE DecimalLiteral[v.v]

\* data.get(k) and data.get(k, default) of a parsed JSON object
Get(data, k) == IF k \in DOMAIN data THEN data[k] ELSE NULL
GetOr(data, k, default) == IF k \in DOMAIN data THEN data[k] ELSE default

\* the truth value Python gives a JSON scalar
Truthy(v) == \/ v.t = "int" /\ v.v # 0
             \/ v.t = "str" /\ v.v # ""

\* the empty JSON object, which parse_json also returns for a missing or
\* malformed body
EmptyBody == [k \in {} |-> NULL]

\* the object data without the keys outside keys
Restrict(data, keys) == [k \in DOMAIN data \cap keys |-> data[k]]

\* the function f with the key k removed / with row r stored under id k
Without(f, ks) == [k \in DOMAIN f \ ks |-> f[k]]
With(f, k, r) == [j \in DOMAIN f \cup {k} |-> IF j = k THEN r ELSE f[j]]

(***************************************************************************)
(* The store after init_db() and seed_if_empty() on an empty file.         *)
(***************************************************************************)
SeedCustomers ==
  1 :> [name |-> Str("Acme Telecom"), type |-> Str("Business"),
        email |-> Str("ops@acme.example"), phone |-> Str("+1-202-555-0147"),
        status |-> Str("Active"), created_at |-> 0, updated_at |-> 0]
  @@
  2 :> [name |-> Str("Jane Doe"), type |-> Str("Individual"),
        email |-> Str("jane@example.com"), phone |-> Str("+1-202-555-0183"),
        status |-> Str("Active"), created_at |-> 0, updated_at |-> 0]

SeedAddresses ==
  1 :> [customer_id |-> 1, line1 |-> Str("100 Main St"), line2 |-> NULL,
        city |-> Str("Metropolis"), state |-> Str("NY"),
        postal_code |-> Str("10001"), country |-> Str("US"), is_primary |-> 1]
  @@
  2 :> [customer_id |-> 2, line1 |-> Str("55 Pine Ave"), line2 |-> NULL,
        city |-> Str("Springfield"), state |-> Str("IL"),
        postal_code |-> Str("62701"), country |-> Str("US"), is_primary |-> 1]

SeedContacts ==
  1 :> [customer_id |-> 1, name |-> Str("Sam Ops"),
        email |-> Str("sam.ops@acme.example"), phone |-> Str("+1-202-555-0123"),
        role |-> Str("Operations")]

SeedProduct(sku, name, desc, cat, price_cents) ==
  [sku |-> Str(sku), name |-> Str(name), description |-> Str(desc),
   category |-> Str(cat), price_cents |-> price_cents,
   currency |-> Str("USD"), is_active |-> Num(1), created_at |-> 0]

SeedProducts ==
  1 :> SeedProduct("PLAN-5G-BASIC", "5G Basic Plan",
                   "10GB data, unlimited talk/text", "Plan", 3000)
  @@
  2 :> SeedProduct("PLAN-5G-UNL", "5G Unlimited Plan",
                   "Unlimited data, talk, text", "Plan", 7000)
  @@
  3 :> SeedProduct("ROUTER-ACME-1000", "Acme Home Router 1000",
                   "WiFi 6 home router", "Device", 12999)
  @@
  4 :> SeedProduct("SIM-TRI-CUT", "Tri-cut SIM",
                   "Multi-size SIM card", "Accessory", 500)

\* the seeded order holds one unit of PLAN-5G-UNL and one of SIM-TRI-CUT
SeedOrderItems ==
  1 :> [order_id |-> 1, product_id |-> 2, quantity |-> 1,
        unit_price_cents |-> 7000, line_total_cents |-> 7000 * 1]
  @@
  2 :> [order_id |-> 1, product_id |-> 4, quantity |-> 1,
        unit_price_cents |-> 500, line_total_cents |-> 500 * 1]

SeedOrders ==
  1 :> [customer_id |-> 1, status |-> Str("Pending"),
        total_cents |-> 7000 + 500, currency |-> Str("USD"),
        notes |-> Str("Initial demo order"),
        created_at |-> 0, updated_at |-> 0]

SeedCases ==
  1 :> [customer_id |-> 1, order_id |-> Num(1),
        title |-> Str("SIM not activating"),
        description |-> Str("Customer reports SIM activation failure."),
        status |-> Str("Open"), priority |-> Str("High"),
        assignee |-> Str("agent.alex"), created_at |-> 0, updated_at |-> 0]

\* seq is the sqlite_sequence table that AUTOINCREMENT keeps: the largest id
\* ever committed for each table
seed_if_empty ==
  [customers |-> SeedCustomers, addresses |-> SeedAddresses,
   contacts |-> SeedContacts, products |-> SeedProducts,
   orders |-> SeedOrders, order_items |-> SeedOrderItems,
   cases |-> SeedCases,
   seq |-> [customers |-> 2, addresses |-> 2, contacts |-> 1, products |-> 4,
            orders |-> 1, order_items |-> 2, cases |-> 1]]

(***************************************************************************)
(* The schema of init_db(): the columns that are NOT NULL and have no      *)
(* value supplied by the server, and the foreign-key actions.  PRAGMA      *)
(* foreign_keys = ON makes SQLite enforce the latter on every connection.  *)
(***************************************************************************)
NotNullColumns ==
  [customers |-> {"name"}, products |-> {"sku", "name", "price_cents"},
   orders |-> {}, cases |-> {"title"}]

\* a column value that violates NOT NULL
IsNull(v) == v = NULL

\* the next id an AUTOINCREMENT table hands out, and the store after an INSERT
NextId(s, table) == s.seq[table] + 1
InsertRow(s, table, row) ==
  [s EXCEPT ![table] = With(@, NextId(s, table), row),
            !.seq[table] = @ + 1]

\* the nullable cases.order_id points at one of the orders oids
RefersTo(order_id, oids) == order_id.t = "int" /\ order_id.v \in oids

\* (cases.order_id declared ON DELETE CASCADE)
delete_orders_cascade_cases(s, oids) ==
  [s EXCEPT
     !.orders = Without(@, oids),
     !.order_items = Without(@, {i \in DOMAIN @ : @[i].order_id \in oids}),
     !.cases = Without(@, {c \in DOMAIN @ : RefersTo(@[c].order_id, oids)})]

\* DELETE of the orders oids: order_items.order_id is ON DELETE CASCADE,
\* cases.order_id is ON DELETE SET NULL
delete_orders(s, oids) ==
  [s EXCEPT
     !.orders = Without(@, oids),
     !.order_items = Without(@, {i \in DOMAIN @ : @[i].order_id \in oids}),
     !.cases = [c \in DOMAIN @ |->
                  IF RefersTo(@[c].order_id, oids)
                  THEN [@[c] EXCEPT !.order_id = NULL]
                  ELSE @[c]]]

\* (addresses.customer_id declared without ON DELETE CASCADE and unenforced)
delete_customer_keep_addresses(s, cid) ==
  LET oids == {o \in DOMAIN s.orders : s.orders[o].customer_id = cid}
      s1 == delete_orders(s, oids)
  IN [s1 EXCEPT
        !.customers = Without(@, {cid}),
        !.contacts = Without(@, {a \in DOMAIN @ : @[a].customer_id = cid}),
        !.cases = Without(@, {c \in DOMAIN @ : @[c].customer_id = cid})]

\* DELETE of customer cid: addresses, contacts, orders and cases are
\* ON DELETE CASCADE on customer_id
delete_customer(s, cid) ==
  LET oids == {o \in DOMAIN s.orders : s.orders[o].customer_id = cid}
      s1 == delete_orders(s, oids)
  IN [s1 EXCEPT
        !.customers = Without(@, {cid}),
        !.addresses = Without(@, {a \in DOMAIN @ : @[a].customer_id = cid}),
        !.contacts = Without(@, {a \in DOMAIN @ : @[a].customer_id = cid}),
        !.cases = Without(@, {c \in DOMAIN @ : @[c].customer_id = cid})]

\* (a connection without PRAGMA foreign_keys = ON: no reference is checked)
product_referenced_unchecked(s, pid) == FALSE

\* order_items.product_id REFERENCES products(id) has no ON DELETE action:
\* deleting a product that an order item references is a constraint failure
product_referenced(s, pid) ==
  \E i \in DOMAIN s.order_items : s.order_items[i].product_id = pid

(***************************************************************************)
(* The ways a handler ends.  Each handler opens its own connection with    *)
(* get_conn(); sqlite3 opens a transaction before the first INSERT, UPDATE *)
(* or DELETE and the handler ends it with conn.commit().  When a handler   *)
(* raises, nothing is committed and nothing closes the connection: no      *)
(* response is sent, and a connection abandoned inside its transaction     *)
(* keeps the write lock of the database file until the garbage collector   *)
(* finalises it.                                                           *)
(***************************************************************************)
\* the handler sent a response; s is the committed store
Responded(status, s, body) ==
  [status |-> status, raised |-> "", store |-> s, leak |-> FALSE,
   body |-> body]
\* the handler raised exc and sent no response; leak tells that it abandoned
\* its connection inside an open transaction
Raised(s, exc, leak) ==
  [status |-> "error", raised |-> exc, store |-> s, leak |-> leak,
   body |-> NULL]
\* a writing statement found the database locked by an abandoned connection
Locked(s) == Raised(s, "OperationalError", FALSE)
\* a statement violated a constraint of the schema inside the transaction
Aborted(s) == Raised(s, "IntegrityError", TRUE)
\* the exception int(v) raises when it raises
int_error(v) == IF v.t = "null" THEN "TypeError" ELSE "ValueError"

not_found(s) == Responded("404", s, [error |-> "Not found"])

\* the row of a table as dict_factory returns it, None when there is none
fetchone(s, table, id) ==
  IF id \in DOMAIN s[table] THEN [id |-> id] @@ s[table][id] ELSE NULL

(***************************************************************************)
(* Delete handlers.                                                        *)
(***************************************************************************)
api_customer_by_id_DELETE(s, lk, cid) ==
  IF lk THEN Locked(s)
  ELSE Responded("200", delete_customer(s, cid), [deleted |-> TRUE])

api_product_by_id_DELETE(s, lk, pid) ==
  IF lk THEN Locked(s)
  ELSE IF product_referenced(s, pid) THEN Aborted(s)
  ELSE Responded("200", [s EXCEPT !.products = Without(@, {pid})],
                 [deleted |-> TRUE])

api_order_by_id_DELETE(s, lk, oid) ==
  IF lk THEN Locked(s)
  ELSE Responded("200", delete_orders(s, {oid}), [deleted |-> TRUE])

api_case_by_id_DELETE(s, lk, cid) ==
  IF lk THEN Locked(s)
  ELSE Responded("200", [s EXCEPT !.cases = Without(@, {cid})],
                 [deleted |-> TRUE])

(***************************************************************************)
(* Update handlers.  Each builds its SET list from the keys of the body    *)
(* that are in the handler's list of fields.                               *)
(***************************************************************************)
CustomerFields == {"name", "type", "email", "phone", "status"}
ProductFields == {"sku", "name", "description", "category", "price_cents",
                  "currency", "is_active"}
\* (a list that lets the currency through)
OrderFieldsWithCurrency == {"status", "notes", "currency"}
OrderFields == {"status", "notes"}
CaseFields == {"title", "description", "status", "priority", "assignee"}

\* (an UPDATE without updated_at=?)
update_row_unstamped(old, sets, vals, stamp, now) ==
  [c \in DOMAIN old |-> IF c \in sets THEN vals[c] ELSE old[c]]

\* the row after UPDATE ... SET <sets from vals>, stamped where stamp is set
update_row(old, sets, vals, stamp, now) ==
  [c \in DOMAIN old |->
     IF c \in sets THEN vals[c]
     ELSE IF stamp /\ c = "updated_at" THEN now
     ELSE old[c]]

\* the UPDATE sets a NOT NULL column of the table to NULL
sets_null(table, sets, vals) ==
  \E c \in sets \cap NotNullColumns[table] : IsNull(vals[c])

\* (an update that answers 404 when its UPDATE matched no row)
update_missing_not_found(s) == not_found(s)

\* an UPDATE whose WHERE id=? matches no row changes nothing and checks no
\* constraint; the SELECT after the commit fetches None, which is sent as
\* the body null of a 200 response
update_missing(s) == Responded("200", s, NULL)

api_customer_by_id_PUT(s, lk, now, cid, data) ==
  LET sets == CustomerFields \cap DOMAIN data
      s1 == [s EXCEPT !.customers[cid] = update_row(@, sets, data, TRUE, now)]
  IN IF lk THEN Locked(s)
     ELSE IF cid \notin DOMAIN s.customers THEN update_missing(s)
     ELSE IF sets_null("customers", sets, data) THEN Aborted(s)
     ELSE Responded("200", s1, fetchone(s1, "customers", cid))

\* products.sku is UNIQUE
sku_taken(s, pid, sku) ==
  \E p \in DOMAIN s.products \ {pid} : s.products[p].sku = sku

\* price_cents and is_active go through int() unless they are None
product_val(f, val) ==
  IF f = "price_cents" /\ val # NULL THEN int(val)
  ELSE IF f = "is_active" /\ val # NULL THEN Num(int(val))
  ELSE val

\* (an update that also reprices the order items of the product)
update_products_reprice(s, pid, sets, vals) ==
  [s EXCEPT
     !.products[pid] = update_row(@, sets, vals, FALSE, 0),
     !.order_items =
        [i \in DOMAIN @ |->
           IF @[i].product_id = pid /\ "price_cents" \in sets
           THEN [@[i] EXCEPT !.unit_price_cents = vals.price_cents]
           ELSE @[i]]]

\* UPDATE products SET <sets from vals> WHERE id = pid: products has no
\* updated_at column, and no other table is written
update_products(s, pid, sets, vals) ==
  [s EXCEPT !.products[pid] = update_row(@, sets, vals, FALSE, 0)]

api_product_by_id_PUT(s, lk, pid, data) ==
  LET sets == ProductFields \cap DOMAIN data
      raises == \E f \in sets \cap {"price_cents", "is_active"} :
                   data[f] # NULL /\ ~int_ok(data[f])
      vals == [f \in sets |-> product_val(f, data[f])]
      s1 == update_products(s, pid, sets, vals)
  IN IF raises THEN Raised(s, "ValueError", FALSE)
     ELSE IF sets = {} THEN Responded("200", s, fetchone(s, "products", pid))
     ELSE IF lk THEN Locked(s)
     ELSE IF pid \notin DOMAIN s.products THEN update_missing(s)
     ELSE IF sets_null("products", sets, data) THEN Aborted(s)
     ELSE IF "sku" \in sets /\ sku_taken(s, pid, data.sku) THEN Aborted(s)
     ELSE Responded("200", s1, fetchone(s1, "products", pid))

api_order_by_id_PUT(s, lk, now, oid, data) ==
  LET sets == OrderFields \cap DOMAIN data
      s1 == [s EXCEPT !.orders[oid] = update_row(@, sets, data, TRUE, now)]
  IN IF lk THEN Locked(s)
     ELSE IF oid \notin DOMAIN s.orders THEN update_missing(s)
     ELSE Responded("200", s1, fetchone(s1, "orders", oid))

api_case_by_id_PUT(s, lk, now, cid, data) ==
  LET sets == CaseFields \cap DOMAIN data
      s1 == [s EXCEPT !.cases[cid] = update_row(@, sets, data, TRUE, now)]
  IN IF lk THEN Locked(s)
     ELSE IF cid \notin DOMAIN s.cases THEN update_missing(s)
     ELSE IF sets_null("cases", sets, data) THEN Aborted(s)
     ELSE Responded("200", s1, fetchone(s1, "cases", cid))

(***************************************************************************)
(* Create handlers.                                                        *)
(***************************************************************************)
api_customers_POST(s, lk, now, data) ==
  LET row == [name |-> Get(data, "name"),
              type |-> GetOr(data, "type", Str("Individual")),
              email |-> Get(data, "email"), phone |-> Get(data, "phone"),
              status |-> GetOr(data, "status", Str("Active")),
              created_at |-> now, updated_at |-> now]
      s1 == InsertRow(s, "customers", row)
  IN IF lk THEN Locked(s)
     ELSE IF IsNull(row.name) THEN Aborted(s)
     ELSE Responded("201", s1, fetchone(s1, "customers", NextId(s, "customers")))

api_products_POST(s, lk, now, data) ==
  LET price == GetOr(data, "price_cents", Num(0))
      row == [sku |-> Get(data, "sku"), name |-> Get(data, "name"),
              description |-> Get(data, "description"),
              category |-> Get(data, "category"),
              price_cents |-> int(price),
              currency |-> GetOr(data, "currency", Str("USD")),
              is_active |-> IF Truthy(GetOr(data, "is_active", Num(1)))
                            THEN Num(1) ELSE Num(0),
              created_at |-> now]
      s1 == InsertRow(s, "products", row)
  IN IF ~int_ok(price) THEN Raised(s, int_error(price), FALSE)
     ELSE IF lk THEN Locked(s)
     ELSE IF IsNull(row.sku) \/ IsNull(row.name) THEN Aborted(s)
     ELSE IF sku_taken(s, 0, row.sku) THEN Aborted(s)
     ELSE Responded("201", s1, fetchone(s1, "products", NextId(s, "products")))

api_cases_POST(s, lk, now, data) ==
  LET raises == IF "customer_id" \notin DOMAIN data THEN "KeyError"
                ELSE IF ~int_ok(data.customer_id)
                     THEN int_error(data.customer_id)
                ELSE IF Truthy(Get(data, "order_id")) /\ ~int_ok(data.order_id)
                     THEN "ValueError"
                ELSE IF "title" \notin DOMAIN data THEN "KeyError"
                ELSE ""
      row == [customer_id |-> int(data.customer_id),
              order_id |-> IF Truthy(Get(data, "order_id"))
                           THEN Num(int(data.order_id)) ELSE NULL,
              title |-> data.title,
              description |-> Get(data, "description"),
              status |-> GetOr(data, "status", Str("Open")),
              priority |-> GetOr(data, "priority", Str("Medium")),
              assignee |-> Get(data, "assignee"),
              created_at |-> now, updated_at |-> now]
      s1 == InsertRow(s, "cases", row)
  IN IF raises # "" THEN Raised(s, raises, FALSE)
     ELSE IF lk THEN Locked(s)
     ELSE IF IsNull(row.title) THEN Aborted(s)
     ELSE IF row.customer_id \notin DOMAIN s.customers THEN Aborted(s)
     ELSE IF row.order_id # NULL /\ row.order_id.v \notin DOMAIN s.orders
          THEN Aborted(s)
     ELSE Responded("201", s1, fetchone(s1, "cases", NextId(s, "cases")))

(***************************************************************************)
(* Read handlers.  A read takes no write lock and sees the committed store.*)
(***************************************************************************)
api_customer_by_id_GET(s, cid) ==
  IF cid \notin DOMAIN s.customers THEN not_found(s)
  ELSE Responded("200", s,
         fetchone(s, "customers", cid) @@
         [addresses |-> {fetchone(s, "addresses", a) :
                           a \in {x \in DOMAIN s.addresses :
                                    s.addresses[x].customer_id = cid}},
          contacts |-> {fetchone(s, "contacts", a) :
                          a \in {x \in DOMAIN s.contacts :
                                   s.contacts[x].customer_id = cid}}])

\* the items of an order, each joined with the sku and name of its product
order_items_joined(s, oid) ==
  {fetchone(s, "order_items", i) @@
     [sku |-> s.products[s.order_items[i].product_id].sku,
      name |-> s.products[s.order_items[i].product_id].name] :
   i \in {x \in DOMAIN s.order_items :
            /\ s.order_items[x].order_id = oid
            /\ s.order_items[x].product_id \in DOMAIN s.products}}

api_order_by_id_GET(s, oid) ==
  IF oid \notin DOMAIN s.orders THEN not_found(s)
  ELSE Responded("200", s,
         fetchone(s, "orders", oid) @@ [items |-> order_items_joined(s, oid)])

api_case_by_id_GET(s, cid) ==
  IF cid \notin DOMAIN s.cases THEN not_found(s)
  ELSE Responded("200", s, fetchone(s, "cases", cid))

\* the orders joined with the name of their customer
api_orders_GET(s) ==
  Responded("200", s,
    {fetchone(s, "orders", o) @@
       [customer_name |-> s.customers[s.orders[o].customer_id].name] :
     o \in {x \in DOMAIN s.orders :
              s.orders[x].customer_id \in DOMAIN s.customers}})

(***************************************************************************)
(* handle_api: the route table.  A path is the sequence of its segments    *)
(* after /api/.  A collection pattern matches the one-segment path of its  *)
(* resource, an item pattern a resource followed by a segment of decimal   *)
(* digits; the first pattern that matches gives the handler, and the       *)
(* method plays no part in the match.                                      *)
(***************************************************************************)
Methods == {"GET", "POST", "PUT", "DELETE"}
Resources == {"customers", "products", "orders", "cases"}

\* the segments that \d+ matches, among those of Paths
digits(seg) == seg \in DOMAIN DecimalLiteral

\* the handler of the first route pattern that matches path, "none" if none
route(path) ==
  IF Len(path) = 1 /\ path[1] \in Resources THEN "collection"
  ELSE IF Len(path) = 2 /\ path[1] \in Resources /\ digits(path[2])
       THEN "item"
  ELSE IF path = <<"search">> THEN "api_search"
  ELSE IF path = <<"dashboard">> THEN "api_dashboard"
  ELSE "none"

\* api_search with the query q; without q no table is searched.  The
\* handler does not look at the method.
api_search(s, method, q) ==
  Responded("200", s,
    [customers |-> {}, products |-> {}, orders |-> {}, cases |-> {}])

\* api_dashboard counts the rows of the committed store.  The handler does
\* not look at the method.
api_dashboard(s, method) ==
  Responded("200", s,
    [customers |-> Cardinality(DOMAIN s.customers),
     products |-> Cardinality(DOMAIN s.products),
     orders |-> Cardinality(DOMAIN s.orders),
     cases |-> Cardinality(DOMAIN s.cases),
     open_cases |->
       Cardinality({c \in DOMAIN s.cases :
                      /\ s.cases[c].status.t = "str"
                      /\ s.cases[c].status.v \in {"Open", "In Progress"}}),
     pending_orders |->
       Cardinality({o \in DOMAIN s.orders :
                      /\ s.orders[o].status.t = "str"
                      /\ s.orders[o].status.v \in {"Pending", "Confirmed"}})])

\* the (method, path) pairs that reach an operation of a handler: GET and
\* POST on a collection, GET, PUT and DELETE on an item; api_search and
\* api_dashboard have one operation, whatever the method
handled_by(method, path) ==
  CASE route(path) = "collection" -> method \in {"GET", "POST"}
    [] route(path) = "item" -> method \in {"GET", "PUT", "DELETE"}
    [] route(path) \in {"api_search", "api_dashboard"} -> TRUE
    [] OTHER -> FALSE

\* handle_api for the requests that reach no operation of a collection or
\* item handler: the else branch of the handler, or no pattern matched
handle_api(s, method, path) ==
  CASE route(path) = "api_search" -> api_search(s, method, "")
    [] route(path) = "api_dashboard" -> api_dashboard(s, method)
    [] OTHER -> not_found(s)

(***************************************************************************)
(* Request bodies, as parse_json returns them.                             *)
(***************************************************************************)
\* items of a create-order body
ItemDefaultPrice == "product_id" :> Num(1) @@ "quantity" :> Num(2)
ItemCallerPrice == "product_id" :> Str("2") @@ "unit_price_cents" :> Num(100)
ItemNoSuchProduct == "product_id" :> Num(99) @@ "quantity" :> Num(1)
ItemNoProductId == "quantity" :> Num(1)
ItemBadQuantity == "product_id" :> Num(1) @@ "quantity" :> Str("x")
ItemZeroQuantity == "product_id" :> Num(1) @@ "quantity" :> Num(0)

OrderBodies ==
  { "customer_id" :> Num(1)
      @@ "items" :> <<ItemDefaultPrice, ItemCallerPrice>>,
    "customer_id" :> Num(1) @@ "items" :> <<ItemNoSuchProduct>>,
    "customer_id" :> Num(1)
      @@ "items" :> <<ItemDefaultPrice, ItemNoSuchProduct>>,
    "customer_id" :> Num(1)
      @@ "items" :> <<ItemDefaultPrice, ItemNoProductId>>,
    "customer_id" :> Num(1) @@ "items" :> <<ItemBadQuantity>>,
    "customer_id" :> Num(1) @@ "items" :> <<ItemZeroQuantity>>,
    "customer_id" :> Str("2") @@ "notes" :> Str("rush")
      @@ "currency" :> Str("EUR"),
    "items" :> <<ItemDefaultPrice>>,
    "customer_id" :> Num(99) @@ "items" :> <<>> }

CustomerCreateBodies ==
  { "name" :> Str("Bob"),
    "email" :> Str("bob@example.com") }

ProductCreateBodies ==
  { "sku" :> Str("CASE-1") @@ "name" :> Str("Phone case")
      @@ "price_cents" :> Num(100),
    "sku" :> Str("CASE-1") @@ "name" :> Str("Phone case"),
    "name" :> Str("Phone case") @@ "price_cents" :> Num(100),
    "sku" :> Str("SIM-TRI-CUT") @@ "name" :> Str("SIM")
      @@ "price_cents" :> Str("2") }

CaseCreateBodies ==
  { "customer_id" :> Num(2) @@ "order_id" :> Num(1)
      @@ "title" :> Str("Late delivery"),
    "customer_id" :> Num(1) @@ "order_id" :> Num(0)
      @@ "title" :> Str("Billing"),
    "customer_id" :> Num(1),
    "title" :> Str("Billing"),
    "customer_id" :> Num(99) @@ "title" :> Str("Billing"),
    "customer_id" :> Num(2) @@ "order_id" :> Num(99)
      @@ "title" :> Str("Billing") }

CustomerUpdateBodies ==
  { EmptyBody,
    "status" :> Str("Inactive") @@ "id" :> Num(7) @@ "created_at" :> Num(7)
      @@ "nickname" :> Str("x"),
    "name" :> NULL }

ProductUpdateBodies ==
  { "price_cents" :> Num(9999),
    "price_cents" :> Str("x"),
    "id" :> Num(7) @@ "created_at" :> Num(7),
    "sku" :> Str("SIM-TRI-CUT") @@ "updated_at" :> Num(7) }

OrderUpdateBodies ==
  { EmptyBody,
    "status" :> Str("Shipped") @@ "total_cents" :> Num(5)
      @@ "currency" :> Str("EUR") @@ "customer_id" :> Num(2) }

CaseUpdateBodies ==
  { EmptyBody,
    "status" :> Str("Closed") @@ "order_id" :> NULL
      @@ "customer_id" :> Num(2),
    "title" :> NULL }

\* paths after /api/: a collection, an item, an item path whose identifier is
\* not numeric, the two read-only resources, and a path no pattern matches
Paths == {<<"customers">>, <<"orders", "2">>, <<"cases", "x">>,
          <<"search">>, <<"dashboard">>, <<"reports">>}

CustomerIds == 1..MaxCustomerId
\* a product no order refers to at first, one the seeded order refers to,
\* and the one the model creates
ProductIds == {1, 2, MaxProductId}
OrderIds == 1..MaxOrderId
CaseIds == 1..MaxCaseId

(***************************************************************************)
(* The state of the server.                                                *)
(***************************************************************************)
VARIABLES
  db,        \* the committed content of the database file DB_PATH
  locked,    \* a connection abandoned by a handler that raised still holds
             \* the write lock of the database file
  clock,     \* the time now_iso() returns
  pc,        \* "idle", or "items" inside the item loop of api_orders POST
  tx,        \* the store as the connection of the running handler sees it
  order_id,  \* the locals order_id, total and the position in items of
  total,     \* api_orders POST
  idx,
  req,       \* the request being handled, or the last one handled
  resp,      \* its response
  handled    \* the number of requests accepted so far

vars == <<db, locked, clock, pc, tx, order_id, total, idx, req, resp,
          handled>>

Init ==
  /\ db = seed_if_empty
  /\ locked = FALSE
  /\ clock = 0
  /\ pc = "idle"
  /\ tx = seed_if_empty
  /\ order_id = 0
  /\ total = 0
  /\ idx = 0
  /\ req = [op |-> "none", id |-> 0, data |-> EmptyBody]
  /\ resp = [status |-> "none", raised |-> "", body |-> NULL]
  /\ handled = 0

\* time passes
Tick ==
  /\ clock < MaxClock
  /\ clock' = clock + 1
  /\ UNCHANGED <<db, locked, pc, tx, order_id, total, idx, req, resp,
                 handled>>

\* the garbage collector finalises the abandoned connections: their
\* transactions are rolled back and the write lock is released
gc_collect ==
  /\ locked
  /\ locked' = FALSE
  /\ UNCHANGED <<db, clock, pc, tx, order_id, total, idx, req, resp,
                 handled>>

\* HTTPServer handles one request at a time: a handler that runs as one
\* step, from the request to its outcome out
Handle(op, id, data, out) ==
  /\ pc = "idle"
  /\ handled < MaxRequests
  /\ handled' = handled + 1
  /\ req' = [op |-> op, id |-> id, data |-> data]
  /\ resp' = [status |-> out.status, raised |-> out.raised, body |-> out.body]
  /\ db' = out.store
  /\ tx' = out.store
  /\ locked' = (locked \/ out.leak)
  /\ UNCHANGED <<clock, pc, order_id, total, idx>>

customers_POST ==
  \E data \in CustomerCreateBodies :
    /\ db.seq.customers < MaxCustomerId
    /\ Handle("create_customer", 0, data,
              api_customers_POST(db, locked, clock, data))

customer_GET ==
  \E id \in CustomerIds :
    Handle("get_customer", id, EmptyBody, api_customer_by_id_GET(db, id))

customer_PUT ==
  \E id \in CustomerIds, data \in CustomerUpdateBodies :
    Handle("update_customer", id, data,
           api_customer_by_id_PUT(db, locked, clock, id, data))

customer_DELETE ==
  \E id \in CustomerIds :
    Handle("delete_customer", id, EmptyBody,
           api_customer_by_id_DELETE(db, locked, id))

products_POST ==
  \E data \in ProductCreateBodies :
    /\ db.seq.products < MaxProductId
    /\ Handle("create_product", 0, data,
              api_products_POST(db, locked, clock, data))

product_PUT ==
  \E id \in ProductIds, data \in ProductUpdateBodies :
    Handle("update_product", id, data,
           api_product_by_id_PUT(db, locked, id, data))

product_DELETE ==
  \E id \in ProductIds :
    Handle("delete_product", id, EmptyBody,
           api_product_by_id_DELETE(db, locked, id))

orders_GET ==
  Handle("list_orders", 0, EmptyBody, api_orders_GET(db))

order_GET ==
  \E id \in OrderIds :
    Handle("get_order", id, EmptyBody, api_order_by_id_GET(db, id))

order_PUT ==
  \E id \in OrderIds, data \in OrderUpdateBodies :
    Handle("update_order", id, data,
           api_order_by_id_PUT(db, locked, clock, id, data))

order_DELETE ==
  \E id \in OrderIds :
    Handle("delete_order", id, EmptyBody,
           api_order_by_id_DELETE(db, locked, id))

cases_POST ==
  \E data \in CaseCreateBodies :
    /\ db.seq.cases < MaxCaseId
    /\ Handle("create_case", 0, data,
              api_cases_POST(db, locked, clock, data))

case_GET ==
  \E id \in CaseIds :
    Handle("get_case", id, EmptyBody, api_case_by_id_GET(db, id))

case_PUT ==
  \E id \in CaseIds, data \in CaseUpdateBodies :
    Handle("update_case", id, data,
           api_case_by_id_PUT(db, locked, clock, id, data))

case_DELETE ==
  \E id \in CaseIds :
    Handle("delete_case", id, EmptyBody,
           api_case_by_id_DELETE(db, locked, id))

\* a request that reaches no operation of a collection or item handler, and
\* every request for /api/search and /api/dashboard
handle_api_other ==
  \E method \in Methods, path \in Paths :
    /\ route(path) \in {"collection", "item"} => ~handled_by(method, path)
    /\ pc = "idle"
    /\ handled < MaxRequests
    /\ handled' = handled + 1
    /\ LET out == handle_api(db, method, path)
       IN /\ req' = [op |-> "handle_api", id |-> 0, data |-> EmptyBody,
                     method |-> method, path |-> path]
          /\ resp' = [status |-> out.status, raised |-> out.raised,
                      body |-> out.body]
          /\ db' = out.store
          /\ tx' = out.store
          /\ locked' = (locked \/ out.leak)
    /\ UNCHANGED <<clock, pc, order_id, total, idx>>

(***************************************************************************)
(* api_orders POST: the order row, one row for each item, the total, and   *)
(* one commit at the end.  The handler is modelled statement by statement; *)
(* no other request is handled before it ends.                             *)
(***************************************************************************)
\* (a connection in autocommit mode would show each statement at once)
visible_autocommit(committed, view) == view

\* what the other connections see of the database after a statement of an
\* open transaction changed the view of its connection: sqlite3 connections
\* opened by get_conn() commit only in conn.commit()
visible_after_statement(committed, view) == committed

\* the unit price of an item: the caller's, else the price of the product
unit_price(item, prod) ==
  GetOr(item, "unit_price_cents", Num(prod.price_cents))

line_total(unit, quantity) == unit * quantity

\* (a total that keeps only the last line)
add_line_overwrite(sum, line) == line

add_line(sum, line) == sum + line

\* (a handler that commits what it wrote before it raises)
orders_POST_raise_commit(exc, leak) ==
  /\ pc' = "idle"
  /\ resp' = [status |-> "error", raised |-> exc, body |-> NULL]
  /\ locked' = locked
  /\ db' = tx
  /\ tx' = tx
  /\ order_id' = 0
  /\ total' = 0
  /\ idx' = 0
  /\ UNCHANGED clock

\* the handler raises exc: no response, no commit, and leak tells whether a
\* transaction was open
orders_POST_raise(exc, leak) ==
  /\ pc' = "idle"
  /\ resp' = [status |-> "error", raised |-> exc, body |-> NULL]
  /\ locked' = (locked \/ leak)
  /\ db' = db
  /\ tx' = db
  /\ order_id' = 0
  /\ total' = 0
  /\ idx' = 0
  /\ UNCHANGED clock

\* lines 501-509: parse the body and insert the order row with total 0
orders_POST ==
  \E data \in OrderBodies :
    /\ pc = "idle"
    /\ handled < MaxRequests
    /\ handled' = handled + 1
    /\ db.seq.orders < MaxOrderId
    /\ req' = [op |-> "create_order", id |-> 0, data |-> data]
    /\ LET cust == Get(data, "customer_id")
           row == [customer_id |-> int(cust), status |-> Str("Pending"),
                   total_cents |-> 0,
                   currency |-> GetOr(data, "currency", Str("USD")),
                   notes |-> Get(data, "notes"),
                   created_at |-> clock, updated_at |-> clock]
       IN IF ~int_ok(cust) THEN orders_POST_raise(int_error(cust), FALSE)
          ELSE IF locked THEN orders_POST_raise("OperationalError", FALSE)
          ELSE IF int(cust) \notin DOMAIN db.customers
               THEN orders_POST_raise("IntegrityError", TRUE)
          ELSE /\ tx' = InsertRow(db, "orders", row)
               /\ db' = visible_after_statement(db, tx')
               /\ order_id' = NextId(db, "orders")
               /\ total' = 0
               /\ idx' = 1
               /\ pc' = "items"
               /\ resp' = [status |-> "pending", raised |-> "", body |-> NULL]
               /\ UNCHANGED <<locked, clock>>

\* the items list of the body being handled
req_items == GetOr(req.data, "items", <<>>)

\* lines 510-520: one turn of the loop over the items
orders_POST_item ==
  /\ pc = "items"
  /\ idx <= Len(req_items)
  /\ LET item == req_items[idx]
         qty == GetOr(item, "quantity", Num(1))
         product_id == int(item.product_id)
         quantity == int(qty)
         prod == tx.products[product_id]
         unit == int(unit_price(item, prod))
         line == line_total(unit, quantity)
     IN IF "product_id" \notin DOMAIN item
        THEN orders_POST_raise("KeyError", TRUE) /\ UNCHANGED <<req, handled>>
        ELSE IF ~int_ok(item.product_id)
        THEN orders_POST_raise(int_error(item.product_id), TRUE)
             /\ UNCHANGED <<req, handled>>
        ELSE IF ~int_ok(qty)
        THEN orders_POST_raise(int_error(qty), TRUE)
             /\ UNCHANGED <<req, handled>>
        ELSE IF product_id \notin DOMAIN tx.products
        THEN /\ idx' = idx + 1
             /\ UNCHANGED <<db, locked, clock, pc, tx, order_id, total, req,
                            resp, handled>>
        ELSE IF ~int_ok(unit_price(item, prod))
        THEN orders_POST_raise(int_error(unit_price(item, prod)), TRUE)
             /\ UNCHANGED <<req, handled>>
        ELSE /\ total' = add_line(total, line)
             /\ tx' = InsertRow(tx, "order_items",
                        [order_id |-> order_id, product_id |-> product_id,
                         quantity |-> quantity, unit_price_cents |-> unit,
                         line_total_cents |-> line])
             /\ db' = visible_after_statement(db, tx')
             /\ idx' = idx + 1
             /\ UNCHANGED <<locked, clock, pc, order_id, req, resp, handled>>

\* the rows of order_items of order oid, as SELECT * returns them
order_items_of(s, oid) ==
  {fetchone(s, "order_items", i) :
     i \in {x \in DOMAIN s.order_items : s.order_items[x].order_id = oid}}

\* lines 521-527: write the total, commit, and answer with the order and
\* its items
orders_POST_commit ==
  /\ pc = "items"
  /\ idx > Len(req_items)
  /\ LET s1 == [tx EXCEPT !.orders[order_id].total_cents = total,
                          !.orders[order_id].updated_at = clock]
     IN /\ db' = s1
        /\ tx' = s1
        /\ resp' = [status |-> "201", raised |-> "",
                    body |-> fetchone(s1, "orders", order_id) @@
                             [items |-> order_items_of(s1, order_id)]]
  /\ pc' = "idle"
  /\ order_id' = 0
  /\ total' = 0
  /\ idx' = 0
  /\ UNCHANGED <<locked, clock, req, handled>>

Next ==
  \/ Tick
  \/ gc_collect
  \/ customers_POST
  \/ customer_GET
  \/ customer_PUT
  \/ customer_DELETE
  \/ products_POST
  \/ product_PUT
  \/ product_DELETE
  \/ orders_GET
  \/ orders_POST
  \/ orders_POST_item
  \/ orders_POST_commit
  \/ order_GET
  \/ order_PUT
  \/ order_DELETE
  \/ cases_POST
  \/ case_GET
  \/ case_PUT
  \/ case_DELETE
  \/ handle_api_other

Spec == Init /\ [][Next]_vars

(***************************************************************************)
(* Properties.                                                             *)
(***************************************************************************)
RECURSIVE SumOver(_, _)
\* the sum of f[i] over the ids i
SumOver(f, ids) ==
  IF ids = {} THEN 0
  ELSE LET i == CHOOSE x \in ids : TRUE
       IN f[i] + SumOver(f, ids \ {i})

\* the ids of the order items stored for order oid
item_ids(s, oid) ==
  {i \in DOMAIN s.order_items : s.order_items[i].order_id = oid}

\* the sum of line_total_cents over the items stored for order oid
lines_sum(s, oid) ==
  SumOver([i \in DOMAIN s.order_items |-> s.order_items[i].line_total_cents],
          item_ids(s, oid))

\* this step accepted a request
Accepted == handled' = handled + 1

\* C1: in every reachable state of the store, also after order updates that
\* carry total_cents in their body, the total_cents of each order equals the
\* sum of line_total_cents over the order items stored for it.
C1_TotalIsSumOfLines ==
  \A o \in DOMAIN db.orders : db.orders[o].total_cents = lines_sum(db, o)

\* an order created by a request, with two items, has been updated with a
\* body that carries total_cents
C1_Witness ==
  /\ req.op = "update_order"
  /\ "total_cents" \in DOMAIN req.data
  /\ resp.status = "200"
  /\ req.id \in DOMAIN db.orders
  /\ req.id # 1
  /\ Cardinality(item_ids(db, req.id)) = 2
  /\ db.orders[req.id].total_cents # req.data.total_cents.v

\* C2: when api_orders POST raises after it inserted the order row, the
\* committed store is left as it was and holds neither the order row nor any
\* order item of that request.
C2_CreateOrderAllOrNothing ==
  [][(pc = "items" /\ pc' = "idle" /\ resp'.status = "error")
       => /\ db' = db
          /\ order_id \notin DOMAIN db'.orders
          /\ item_ids(db', order_id) = {}
          /\ db'.seq = db.seq]_vars

\* the handler raised KeyError on its second item, after it inserted the
\* order row and a first item
C2_Witness ==
  /\ pc = "idle"
  /\ req.op = "create_order"
  /\ resp.raised = "KeyError"
  /\ locked
  /\ DOMAIN db.orders = {1}

\* C3: while api_orders POST runs, the committed store holds neither its
\* order row nor any of its items, and no other request is handled; an order
\* read by get order or list orders carries the total of all its items.
C3_NoIntermediateOrderVisible ==
  /\ pc = "items" =>
       /\ order_id \notin DOMAIN db.orders
       /\ item_ids(db, order_id) = {}
       /\ req.op = "create_order"
       /\ resp.status = "pending"
  /\ (req.op = "get_order" /\ resp.status = "200") =>
       /\ {i.id : i \in resp.body.items} = item_ids(db, req.id)
       /\ resp.body.total_cents = lines_sum(db, req.id)
  /\ req.op = "list_orders" =>
       \A o \in resp.body : o.total_cents = lines_sum(db, o.id)

\* the handler has inserted the order row with total 0 and an item with a
\* line total, and has not committed
C3_Witness ==
  /\ pc = "items"
  /\ tx.orders[order_id].total_cents = 0
  /\ lines_sum(tx, order_id) > 0

\* the table a by-id request addresses
table_of(op) ==
  CASE op \in {"get_customer", "update_customer", "delete_customer"}
         -> "customers"
    [] op \in {"update_product", "delete_product"} -> "products"
    [] op \in {"get_order", "update_order", "delete_order"} -> "orders"
    [] op \in {"get_case", "update_case", "delete_case"} -> "cases"

DeleteOps == {"delete_customer", "delete_product", "delete_order",
              "delete_case"}
UpdateOps == {"update_customer", "update_product", "update_order",
              "update_case"}

\* C4: every delete request is answered 200 with deleted = true, and
\* afterwards the store holds no row of that table with that id.
C4_DeleteAlwaysSucceeds ==
  req.op \in DeleteOps =>
    /\ resp.status = "200"
    /\ resp.body = [deleted |-> TRUE]
    /\ req.id \notin DOMAIN db[table_of(req.op)]

\* C5: an order item that stays in the store keeps all its columns, and an
\* order that stays in the store keeps its total_cents, whatever request is
\* handled, product updates with a new price_cents included.
C5_ItemPricesAreSnapshots ==
  [][/\ \A i \in DOMAIN db.order_items \cap DOMAIN db'.order_items :
          db'.order_items[i] = db.order_items[i]
     /\ \A o \in DOMAIN db.orders \cap DOMAIN db'.orders :
          db'.orders[o].total_cents = db.orders[o].total_cents]_vars

\* the price of a product was updated to one that differs from the unit
\* price an order item of that product carries
C5_Witness ==
  /\ req.op = "update_product"
  /\ resp.status = "200"
  /\ "price_cents" \in DOMAIN req.data
  /\ req.id \in DOMAIN db.products
  /\ \E i \in DOMAIN db.order_items :
       /\ db.order_items[i].product_id = req.id
       /\ db.products[req.id].price_cents = req.data.price_cents.v
       /\ db.order_items[i].unit_price_cents # db.products[req.id].price_cents
       /\ db.order_items[i].line_total_cents =
            db.order_items[i].unit_price_cents * db.order_items[i].quantity

\* the rows of table t of store s that belong to none of the customers cids
rows_of_others(s, t, cids) ==
  [r \in {x \in DOMAIN s[t] : s[t][x].customer_id \notin cids} |-> s[t][r]]

\* C6: a delete customer(id) answered 200 for an existing customer leaves no
\* address, contact, order or case of that customer and no item of its
\* orders, a get of any of them is answered 404, and every other row is
\* unchanged, except that a case of another customer that pointed at one of
\* the deleted orders has order_id null.
C6_DeleteCustomerCascades ==
  [][(Accepted /\ req'.op = "delete_customer" /\ resp'.status = "200"
      /\ req'.id \in DOMAIN db.customers)
     => LET cid == req'.id
            oids == {o \in DOMAIN db.orders : db.orders[o].customer_id = cid}
            cs == {c \in DOMAIN db.cases : db.cases[c].customer_id = cid}
        IN /\ DOMAIN db'.customers = DOMAIN db.customers \ {cid}
           /\ \A t \in {"addresses", "contacts", "orders", "cases"} :
                \A r \in DOMAIN db'[t] : db'[t][r].customer_id # cid
           /\ \A i \in DOMAIN db'.order_items :
                db'.order_items[i].order_id \notin oids
           /\ api_customer_by_id_GET(db', cid).status = "404"
           /\ \A o \in oids : api_order_by_id_GET(db', o).status = "404"
           /\ \A c \in cs : api_case_by_id_GET(db', c).status = "404"
           /\ \A c \in DOMAIN db'.customers :
                db'.customers[c] = db.customers[c]
           /\ \A t \in {"addresses", "contacts", "orders"} :
                db'[t] = rows_of_others(db, t, {cid})
           /\ db'.order_items =
                [i \in {x \in DOMAIN db.order_items :
                          db.order_items[x].order_id \notin oids}
                   |-> db.order_items[i]]
           /\ db'.products = db.products
           /\ DOMAIN db'.cases = DOMAIN db.cases \ cs
           /\ \A c \in DOMAIN db'.cases :
                db'.cases[c] =
                  IF RefersTo(db.cases[c].order_id, oids)
                  THEN [db.cases[c] EXCEPT !.order_id = NULL]
                  ELSE db.cases[c]]_vars

\* customer 1 was deleted with its address, contact, order and case, and the
\* case of customer 2 that pointed at the order of customer 1 is left with
\* order_id null
C6_Witness ==
  /\ req.op = "delete_customer"
  /\ req.id = 1
  /\ resp.status = "200"
  /\ DOMAIN db.addresses = {2}
  /\ DOMAIN db.contacts = {}
  /\ DOMAIN db.orders = {}
  /\ DOMAIN db.order_items = {}
  /\ DOMAIN db.cases = {2}
  /\ db.cases[2].customer_id = 2
  /\ db.cases[2].order_id = NULL

\* C7: a delete order(id) answered 200 removes the order and its items and
\* no case: a case that pointed at the order is left with order_id null and
\* its other columns unchanged, every other case is unchanged.
C7_DeleteOrderKeepsCases ==
  [][(Accepted /\ req'.op = "delete_order" /\ resp'.status = "200")
     => LET oid == req'.id
        IN /\ oid \notin DOMAIN db'.orders
           /\ item_ids(db', oid) = {}
           /\ DOMAIN db'.cases = DOMAIN db.cases
           /\ \A c \in DOMAIN db.cases :
                db'.cases[c] =
                  IF RefersTo(db.cases[c].order_id, {oid})
                  THEN [db.cases[c] EXCEPT !.order_id = NULL]
                  ELSE db.cases[c]]_vars

\* order 1 was deleted with its items, and case 1, which pointed at it, is
\* still there with order_id null
C7_Witness ==
  /\ req.op = "delete_order"
  /\ req.id = 1
  /\ resp.status = "200"
  /\ 1 \notin DOMAIN db.orders
  /\ item_ids(db, 1) = {}
  /\ 1 \in DOMAIN db.cases
  /\ db.cases[1].order_id = NULL
  /\ db.cases[1].title = Str("SIM not activating")

\* the outcome of the update handler that op names
update_outcome(op, s, lk, now, id, data) ==
  CASE op = "update_customer" -> api_customer_by_id_PUT(s, lk, now, id, data)
    [] op = "update_product" -> api_product_by_id_PUT(s, lk, id, data)
    [] op = "update_order" -> api_order_by_id_PUT(s, lk, now, id, data)
    [] op = "update_case" -> api_case_by_id_PUT(s, lk, now, id, data)

\* the columns an update may change
C8_Whitelist ==
  [update_customer |-> {"name", "type", "email", "phone", "status"},
   update_product |-> {"sku", "name", "description", "category",
                       "price_cents", "currency", "is_active"},
   update_order |-> {"status", "notes"},
   update_case |-> {"title", "description", "status", "priority",
                    "assignee"}]

\* C8: an update request changes no table but its own and no row but the one
\* it names; of that row it changes only the whitelisted columns its body
\* carries and updated_at; and its outcome (response, exception, store) is
\* the outcome of the same request without the keys outside the whitelist.
C8_UpdateHonoursWhitelistOnly ==
  [][(Accepted /\ req'.op \in UpdateOps)
     => LET op == req'.op
            t == table_of(op)
            id == req'.id
            data == req'.data
            may == (C8_Whitelist[op] \cap DOMAIN data) \cup {"updated_at"}
            out == update_outcome(op, db, locked, clock, id,
                                  Restrict(data, C8_Whitelist[op]))
        IN /\ \A u \in DOMAIN db \ {t} : db'[u] = db[u]
           /\ DOMAIN db'[t] = DOMAIN db[t]
           /\ \A r \in DOMAIN db[t] \ {id} : db'[t][r] = db[t][r]
           /\ id \in DOMAIN db[t] =>
                /\ DOMAIN db'[t][id] = DOMAIN db[t][id]
                /\ \A c \in DOMAIN db[t][id] \ may :
                     db'[t][id][c] = db[t][id][c]
           /\ resp'.status = out.status
           /\ resp'.raised = out.raised
           /\ resp'.body = out.body
           /\ db' = out.store]_vars

\* an order was updated with a body that carries status and the keys
\* total_cents, currency and customer_id: only status (and updated_at)
\* changed
C8_Witness ==
  /\ req.op = "update_order"
  /\ req.id = 1
  /\ resp.status = "200"
  /\ {"status", "total_cents", "currency", "customer_id"} \subseteq
       DOMAIN req.data
  /\ db.orders[1].status = req.data.status
  /\ db.orders[1].status # SeedOrders[1].status
  /\ db.orders[1].updated_at = 1
  /\ [db.orders[1] EXCEPT !.status = SeedOrders[1].status,
                          !.updated_at = SeedOrders[1].updated_at]
       = SeedOrders[1]

\* C9 as stated: every update answered 200 on an existing row, of a product
\* too, leaves the row with updated_at set to the time of the update.
C9_UpdateStampsEveryEntity ==
  [][(Accepted /\ req'.op \in UpdateOps /\ resp'.status = "200"
      /\ req'.id \in DOMAIN db[table_of(req'.op)])
     => LET row == db'[table_of(req'.op)][req'.id]
        IN /\ "updated_at" \in DOMAIN row
           /\ row.updated_at = clock]_vars

\* C9 as amended: every update answered 200 on an existing customer, order or
\* case row sets the row's updated_at to the time of the update, also when
\* the body carries no whitelisted field; a product row has no updated_at,
\* and an update of a product with only price_cents changes price_cents and
\* nothing else.
C9_UpdateStampsCustomerOrderCase ==
  [][(Accepted /\ req'.op \in UpdateOps /\ resp'.status = "200"
      /\ req'.id \in DOMAIN db[table_of(req'.op)])
     => IF req'.op = "update_product"
        THEN /\ "updated_at" \notin DOMAIN db'.products[req'.id]
             /\ DOMAIN req'.data = {"price_cents"} =>
                  db' = [db EXCEPT !.products[req'.id].price_cents =
                                      int(req'.data.price_cents)]
        ELSE db'[table_of(req'.op)][req'.id].updated_at = clock]_vars

\* a customer was updated with an empty body at a time later than its
\* creation, and carries that time in updated_at
C9_Witness ==
  /\ req.op = "update_customer"
  /\ req.data = EmptyBody
  /\ resp.status = "200"
  /\ req.id \in DOMAIN db.customers
  /\ db.customers[req.id].updated_at = clock
  /\ db.customers[req.id].created_at < clock
  /\ resp.body.updated_at = clock

\* an item of a create-order body that the handler can convert
well_formed(item) ==
  /\ "product_id" \in DOMAIN item
  /\ int_ok(item.product_id)
  /\ int_ok(GetOr(item, "quantity", Num(1)))
  /\ "unit_price_cents" \in DOMAIN item => int_ok(item.unit_price_cents)

\* the items of the list its whose product is in the store s, in their order
RECURSIVE with_product(_, _)
with_product(s, its) ==
  IF its = <<>> THEN <<>>
  ELSE IF int(Head(its).product_id) \in DOMAIN s.products
       THEN <<Head(its)>> \o with_product(s, Tail(its))
       ELSE with_product(s, Tail(its))

\* the columns the claim gives the order item of a requested item
expected_item(s, item) ==
  LET quantity == int(GetOr(item, "quantity", Num(1)))
      unit == IF "unit_price_cents" \in DOMAIN item
              THEN int(item.unit_price_cents)
              ELSE s.products[int(item.product_id)].price_cents
  IN [product_id |-> int(item.product_id), quantity |-> quantity,
      unit_price_cents |-> unit, line_total_cents |-> quantity * unit]

Listed(method, path) ==
  CASE route(path) = "collection" -> method \in {"GET", "POST"}
    [] route(path) = "item" -> method \in {"GET", "PUT", "DELETE"}
    [] route(path) \in {"api_search", "api_dashboard"} -> method = "GET"
    [] OTHER -> FALSE

\* C11: a request whose (method, path) pair is not in the interface table is
\* answered 404 {"error": "Not found"} and leaves the store as it was.
C11_UnlistedRouteIs404 ==
  (/\ req.op = "handle_api"
   /\ ~Listed(req.method, req.path))
  => /\ resp.status = "404"
     /\ resp.body = [error |-> "Not found"]

\* the fields the data model requires of each create request
RequiredFields ==
  [create_customer |-> {"name"},
   create_product |-> {"sku", "name", "price_cents"},
   create_order |-> {"customer_id"},
   create_case |-> {"customer_id", "title"}]

\* C12: a create request whose body lacks a required field fails, and the
\* store is left as it was: no row is added with a value the server made up.
C12_CreateWithoutRequiredFieldFails ==
  [][(/\ Accepted
      /\ req'.op \in DOMAIN RequiredFields
      /\ RequiredFields[req'.op] \ DOMAIN req'.data # {})
     => /\ resp'.status = "error"
        /\ db' = db]_vars

\* this step accepted an update request for an id that has no row
UpdateOfMissingId ==
  /\ Accepted
  /\ req'.op \in UpdateOps
  /\ req'.id \notin DOMAIN db[table_of(req'.op)]

\* C13 as stated: an update for an id that has no row creates no row,
\* changes no row, and is reported to the caller as "not found".
C13_UpdateMissingIdReportsNotFound ==
  [][UpdateOfMissingId
     => /\ db' = db
        /\ resp'.status = "404"]_vars

\* C13 amended: an update for an id that has no row creates no row and
\* changes no row; it is never answered 404: the answer is 200 with the body
\* null, unless the handler raises before or in its UPDATE statement (a
\* price_cents or is_active that int() rejects, or a locked database).
C13_UpdateMissingIdAnswersNull ==
  [][UpdateOfMissingId
     => /\ db' = db
        /\ \/ resp'.status = "200" /\ resp'.body = NULL
           \/ /\ resp'.status = "error"
              /\ resp'.raised \in {"ValueError", "OperationalError"}]_vars

\* an update of a customer that was never created, with a body that would
\* break a constraint on an existing row, was answered 200 with null
C13_Witness ==
  /\ req.op = "update_customer"
  /\ req.id \notin DOMAIN db.customers
  /\ req.data = "name" :> NULL
  /\ resp.status = "200"
  /\ resp.body = NULL

\* C14: every order item in the committed store has a quantity of at
\* least 1.
C14_QuantityAtLeastOne ==
  \A i \in DOMAIN db.order_items : db.order_items[i].quantity >= 1

\* every reference of the store s names a row of s
referential_integrity(s) ==
  /\ \A o \in DOMAIN s.orders : s.orders[o].customer_id \in DOMAIN s.customers
  /\ \A c \in DOMAIN s.cases :
       /\ s.cases[c].customer_id \in DOMAIN s.customers
       /\ \/ IsNull(s.cases[c].order_id)
          \/ s.cases[c].order_id.v \in DOMAIN s.orders
  /\ \A i \in DOMAIN s.order_items :
       /\ s.order_items[i].order_id \in DOMAIN s.orders
       /\ s.order_items[i].product_id \in DOMAIN s.products

\* C15: in every state every order and case refers to a stored customer,
\* every order item to a stored order and a stored product, and every case
\* to a stored order or to none, in the committed store as in the store the
\* running handler sees; and the items that get order returns, joined with
\* their products, are all the items stored for the order.
C15_ReferentialIntegrity ==
  /\ referential_integrity(db)
  /\ referential_integrity(tx)
  /\ \A o \in DOMAIN db.orders :
       {i.id : i \in order_items_joined(db, o)} = item_ids(db, o)
  /\ (req.op = "get_order" /\ resp.status = "200")
       => {i.id : i \in resp.body.items} = item_ids(db, req.id)

\* the delete of a product that an order item refers to was refused, and
\* the product and the item are still stored
C15_Witness ==
  /\ req.op = "delete_product"
  /\ resp.raised = "IntegrityError"
  /\ req.id \in DOMAIN db.products
  /\ \E i \in DOMAIN db.order_items : db.order_items[i].product_id = req.id

====
